---- MODULE Spec2Model ----
(***************************************************************************)
(* BlogHub: the authentication, session, admin and post handlers of the    *)
(* Flask application, as a state machine over the users/posts/comments     *)
(* tables, the per-client Flask sessions and the wall clock.               *)
(*                                                                         *)
(* Every handler is an operator XResult(...) that computes, from the       *)
(* current state and the request's inputs, the response and the new value  *)
(* of whatever the handler writes; the action X(...) applies it.           *)
(***************************************************************************)
EXTENDS Integers, Sequences, FiniteSets, TLC

VARIABLES
    users,      \* the users table: rows in rowid order
    session,    \* client -> the Flask session (a dict) of that client
    now,        \* time.time()
    resp,       \* the response last sent: [op, status, error, effect]
    lastPw,     \* history: user id -> the plain password last set for the row
    issuedAt,   \* history: user id -> time the stored reset token was issued
    consumed,   \* history: <<email, token, refused since>> for each token accepted
                \* since email's last reset request
    authOf,     \* history: client -> the last login/logout that succeeded on it
    posts,      \* the posts table: rows in rowid order
    comments,   \* the comments table: rows in rowid order
    reqs,       \* request -> the call it has in flight, if any
    post,       \* the Post object a caller holds in memory, if any
    conn,       \* the transaction open on the process-wide connection, if any
    superseded  \* history: <<email, token>> for the reset token that the email's
                \* last reset request replaced by another

vars == <<users, session, now, resp, lastPw, issuedAt, consumed, authOf,
          posts, comments, reqs, post, conn, superseded>>

(***************************************************************************)
(* Bounds and input domains.                                               *)
(***************************************************************************)
MaxTime == 2

Usernames == {"alice", "bob"}
Emails    == {"a@x", "b@x"}
Passwords == {"p1", "p2"}
Salts     == {"s1", "s2"}
Clients   == {"c1", "c2"}
Requests  == {"r1", "r2"}

\* SQL NULL (a column without a value): equal to nothing, itself included.
NULL == "<NULL>"
SqlEq(a, b) == a # NULL /\ b # NULL /\ a = b

\* Caller strings that are not plain values once pasted between quotes.
SqlTautology == "' OR '1'='1"
SqlBroken    == "'"

(***************************************************************************)
(* app/models/user.py                                                      *)
(***************************************************************************)
\* werkzeug's salted one-way hash: the salt is stored beside the digest.
generate_password_hash(password, salt) ==
    [salt |-> salt, digest |-> <<salt, password>>]

\* A check that compares the salt and forgets the password.
check_password_hash_SaltOnly(pwhash, password) ==
    pwhash.digest[1] = pwhash.salt

check_password_hash(pwhash, password) ==
    pwhash.digest = <<pwhash.salt, password>>

\* User.generate_password_reset_token: md5 of f"{email}{time.time()}".
generate_password_reset_token(email, t) ==
    "md5(" \o email \o ToString(t) \o ")"

\* The expiration the design asks of a reset token, in clock ticks; the
\* code stores none.
TokenLifetime == 1

IssuedTokens == {generate_password_reset_token(e, t) : e \in Emails, t \in 0..MaxTime}
ClientTokens == IssuedTokens \cup {SqlTautology, SqlBroken}

(***************************************************************************)
(* Sessions: a dict with the keys a handler or the client put into it.     *)
(* A key that is absent keeps the default value of its field.              *)
(***************************************************************************)
EmptySession == [keys |-> {}, user_id |-> 0, username |-> "", is_admin |-> FALSE]

NoAuth == [kind |-> "none", user_id |-> 0, username |-> "", is_admin |-> FALSE]

\* The tables as a request found them when its call began.
NoSnapshot == [users |-> <<>>, posts |-> <<>>, comments |-> <<>>]

\* A request that runs no call: pc is the call's position, op the handler,
\* c the client whose session it carries and user_id that session's user_id,
\* the other fields the call's inputs and what it has read, step the number
\* of its write statements executed so far.
IdleReq ==
    [pc |-> "idle", username |-> "", email |-> "", password |-> "", salt |-> "",
     token |-> "", status |-> 0, op |-> "", c |-> "", id |-> 0, title |-> <<>>,
     content |-> "", tags |-> "", step |-> 0, user_id |-> 0, is_admin |-> FALSE,
     before |-> NoSnapshot]

\* sqlite3.connect(db_path, check_same_thread=False): one connection for the
\* process. No transaction is open on it: nothing is uncommitted.
NoTxn ==
    [open |-> FALSE, users |-> <<>>, posts |-> <<>>, comments |-> <<>>, pending |-> {}]

NoResp == [op |-> "", status |-> 0, error |-> "", effect |-> "none"]

Response(op, r) == [op |-> op, status |-> r.status, error |-> r.error, effect |-> r.effect]

(***************************************************************************)
(* app/utils/database.py: execute_query on the users table.                *)
(***************************************************************************)
\* The existence check with AND in place of OR.
UsersByUsernameAndEmail(username, email) ==
    SelectSeq(users, LAMBDA r : SqlEq(r.username, username) /\ SqlEq(r.email, email))

UsersByUsernameOrEmail(username, email) ==
    SelectSeq(users, LAMBDA r : SqlEq(r.username, username) \/ SqlEq(r.email, email))

UsersByUsername(username) ==
    SelectSeq(users, LAMBDA r : SqlEq(r.username, username))

UsersByEmail(email) ==
    SelectSeq(users, LAMBDA r : SqlEq(r.email, email))

\* A users table without the unique columns.
UniqueViolation_None(rows, username, email) == FALSE

\* users(username unique, email unique): the INSERT is refused on a duplicate.
UniqueViolation(rows, username, email) ==
    \E i \in 1..Len(rows) : rows[i].username = username \/ rows[i].email = email

(***************************************************************************)
(* app/routes/auth.py                                                      *)
(***************************************************************************)
RegisterInsert(username, email, password, salt) ==
    IF UniqueViolation(users, username, email)
    THEN [status |-> 500, error |-> "Registration failed", effect |-> "none",
          users |-> users, lastPw |-> lastPw]
    ELSE [status |-> 201, error |-> "", effect |-> "none",
          users |-> Append(users,
                      [id |-> Len(users) + 1, username |-> username, email |-> email,
                       password_hash |-> generate_password_hash(password, salt),
                       is_admin |-> FALSE, reset_token |-> NULL]),
          lastPw |-> Append(lastPw, password)]

\* The validation and the existence check; status 0 when both pass.
RegisterCheck(username, email, password) ==
    IF username = "" \/ email = "" \/ password = ""
    THEN [status |-> 400, error |-> "Missing required fields", effect |-> "none",
          users |-> users, lastPw |-> lastPw]
    ELSE IF UsersByUsernameOrEmail(username, email) # <<>>
    THEN [status |-> 400, error |-> "User already exists", effect |-> "none",
          users |-> users, lastPw |-> lastPw]
    ELSE [status |-> 0, error |-> "", effect |-> "none",
          users |-> users, lastPw |-> lastPw]

RegisterResult(username, email, password, salt) ==
    LET existing == RegisterCheck(username, email, password) IN
    IF existing.status # 0
    THEN existing
    ELSE RegisterInsert(username, email, password, salt)

Register(username, email, password, salt) ==
    LET r == RegisterResult(username, email, password, salt) IN
    /\ users' = r.users
    /\ lastPw' = r.lastPw
    /\ issuedAt' = IF Len(r.users) > Len(users) THEN Append(issuedAt, -1) ELSE issuedAt
    /\ resp' = Response("register", r)
    /\ UNCHANGED <<session, now, consumed, authOf, posts, comments, reqs, post, conn, superseded>>

\* register as its two statements on the connection every request shares:
\* the SELECT of the existence check, then the INSERT with its commit.
RegisterSelect(q, username, email, password, salt) ==
    LET existing == RegisterCheck(username, email, password) IN
    /\ reqs[q].pc = "idle"
    /\ reqs' = IF existing.status # 0 THEN reqs
               ELSE [reqs EXCEPT ![q] = [IdleReq EXCEPT
                                           !.pc = "insert", !.username = username,
                                           !.email = email, !.password = password,
                                           !.salt = salt]]
    /\ resp' = IF existing.status # 0 THEN Response("register", existing) ELSE resp
    /\ UNCHANGED <<users, session, now, lastPw, issuedAt, consumed, authOf,
                   posts, comments, post, conn, superseded>>

RegisterExecute(q) ==
    LET a == reqs[q]
        r == RegisterInsert(a.username, a.email, a.password, a.salt) IN
    /\ a.pc = "insert"
    /\ users' = r.users
    /\ lastPw' = r.lastPw
    /\ issuedAt' = IF Len(r.users) > Len(users) THEN Append(issuedAt, -1) ELSE issuedAt
    /\ resp' = Response("register", r)
    /\ reqs' = [reqs EXCEPT ![q] = IdleReq]
    /\ UNCHANGED <<session, now, consumed, authOf, posts, comments, post, conn, superseded>>

\* login clearing the session when it refuses.
LoginResult_ClearsOnFailure(c, username, password) ==
    IF username = "" \/ password = ""
    THEN [status |-> 400, error |-> "Missing credentials", effect |-> "none",
          session |-> EmptySession]
    ELSE LET results == UsersByUsername(username) IN
    IF results = <<>> \/ ~check_password_hash(results[1].password_hash, password)
    THEN [status |-> 401, error |-> "Invalid credentials", effect |-> "none",
          session |-> EmptySession]
    ELSE [status |-> 200, error |-> "", effect |-> "none",
          session |-> [keys |-> session[c].keys \cup {"user_id", "username", "is_admin"},
                       user_id |-> results[1].id,
                       username |-> results[1].username,
                       is_admin |-> results[1].is_admin]]

LoginResult(c, username, password) ==
    IF username = "" \/ password = ""
    THEN [status |-> 400, error |-> "Missing credentials", effect |-> "none",
          session |-> session[c]]
    ELSE LET results == UsersByUsername(username) IN
    IF results = <<>>
    THEN [status |-> 401, error |-> "Invalid credentials", effect |-> "none",
          session |-> session[c]]
    ELSE LET user_data == results[1] IN
    IF ~check_password_hash(user_data.password_hash, password)
    THEN [status |-> 401, error |-> "Invalid credentials", effect |-> "none",
          session |-> session[c]]
    ELSE [status |-> 200, error |-> "", effect |-> "none",
          session |-> [keys |-> session[c].keys \cup {"user_id", "username", "is_admin"},
                       user_id |-> user_data.id,
                       username |-> user_data.username,
                       is_admin |-> user_data.is_admin]]

Login(c, username, password) ==
    LET r == LoginResult(c, username, password) IN
    /\ session' = [session EXCEPT ![c] = r.session]
    /\ authOf' = IF r.status = 200
                 THEN [authOf EXCEPT ![c] = [kind |-> "login",
                                             user_id |-> r.session.user_id,
                                             username |-> r.session.username,
                                             is_admin |-> r.session.is_admin]]
                 ELSE authOf
    /\ resp' = Response("login", r)
    /\ UNCHANGED <<users, now, lastPw, issuedAt, consumed, posts, comments, reqs, post, conn, superseded>>

LogoutResult(c) ==
    [status |-> 200, error |-> "", effect |-> "none", session |-> EmptySession]

Logout(c) ==
    LET r == LogoutResult(c) IN
    /\ session' = [session EXCEPT ![c] = r.session]
    /\ authOf' = [authOf EXCEPT ![c] = [NoAuth EXCEPT !.kind = "logout"]]
    /\ resp' = Response("logout", r)
    /\ UNCHANGED <<users, now, lastPw, issuedAt, consumed, posts, comments, reqs, post, conn, superseded>>

\* UPDATE users SET reset_token = ? WHERE email = ?
ResetPasswordUpdate(email, reset_token) ==
    [i \in 1..Len(users) |->
        IF SqlEq(users[i].email, email)
        THEN [users[i] EXCEPT !.reset_token = reset_token]
        ELSE users[i]]

\* The UPDATE writing only where no token is stored yet.
ResetPasswordResult_KeepsStored(email) ==
    IF email = ""
    THEN [status |-> 400, error |-> "Email required", effect |-> "none",
          token |-> NULL, users |-> users]
    ELSE LET results == UsersByEmail(email) IN
    IF results = <<>>
    THEN [status |-> 200, error |-> "", effect |-> "none", token |-> NULL, users |-> users]
    ELSE LET reset_token == generate_password_reset_token(results[1].email, now) IN
         [status |-> 200, error |-> "", effect |-> "none", token |-> reset_token,
          users |-> [i \in 1..Len(users) |->
                        IF SqlEq(users[i].email, email) /\ users[i].reset_token = NULL
                        THEN [users[i] EXCEPT !.reset_token = reset_token]
                        ELSE users[i]]]

ResetPasswordResult(email) ==
    IF email = ""
    THEN [status |-> 400, error |-> "Email required", effect |-> "none",
          token |-> NULL, users |-> users]
    ELSE LET results == UsersByEmail(email) IN
    IF results = <<>>
    THEN [status |-> 200, error |-> "", effect |-> "none", token |-> NULL, users |-> users]
    ELSE LET reset_token == generate_password_reset_token(results[1].email, now) IN
         [status |-> 200, error |-> "", effect |-> "none", token |-> reset_token,
          users |-> ResetPasswordUpdate(email, reset_token)]

ResetPassword(email) ==
    LET r == ResetPasswordResult(email) IN
    /\ users' = r.users
    /\ issuedAt' = [i \in 1..Len(users) |->
                       IF r.token # NULL /\ users[i].email = email THEN now ELSE issuedAt[i]]
    /\ consumed' = IF r.token # NULL THEN {p \in consumed : p[1] # email} ELSE consumed
    /\ superseded' =
          LET replaced == {<<email, users[i].reset_token>> :
                              i \in {j \in 1..Len(users) :
                                        /\ r.token # NULL
                                        /\ SqlEq(users[j].email, email)
                                        /\ users[j].reset_token # NULL
                                        /\ users[j].reset_token # r.token}}
          IN IF replaced = {} THEN superseded
             ELSE {old \in superseded : old[1] # email} \cup replaced
    /\ resp' = Response("reset_password", r)
    /\ UNCHANGED <<session, now, lastPw, authOf, posts, comments, reqs, post, conn>>

\* f"SELECT * FROM users WHERE email = '{email}' AND reset_token = '{token}'":
\* the row test the statement text denotes once email and token are pasted in.
ChangePasswordWhere(r, email, token) ==
    IF token = SqlTautology
    THEN TRUE
    ELSE SqlEq(r.email, email) /\ SqlEq(r.reset_token, token)

\* The UPDATE without "reset_token = NULL".
ChangePasswordUpdate_KeepsToken(email, new_password, salt) ==
    [i \in 1..Len(users) |->
        IF SqlEq(users[i].email, email)
        THEN [users[i] EXCEPT !.password_hash = generate_password_hash(new_password, salt)]
        ELSE users[i]]

\* UPDATE users SET password_hash = ?, reset_token = NULL WHERE email = ?
ChangePasswordUpdate(email, new_password, salt) ==
    [i \in 1..Len(users) |->
        IF SqlEq(users[i].email, email)
        THEN [users[i] EXCEPT !.password_hash = generate_password_hash(new_password, salt),
                              !.reset_token = NULL]
        ELSE users[i]]

ChangePasswordResult(email, token, new_password, salt) ==
    IF email = "" \/ token = "" \/ new_password = ""
    THEN [status |-> 400, error |-> "Missing required fields", effect |-> "none",
          users |-> users]
    ELSE IF token = SqlBroken
    THEN [status |-> 500, error |-> "Password change failed", effect |-> "none",
          users |-> users]
    ELSE IF SelectSeq(users, LAMBDA r : ChangePasswordWhere(r, email, token)) = <<>>
    THEN [status |-> 401, error |-> "Invalid token", effect |-> "none", users |-> users]
    ELSE [status |-> 200, error |-> "", effect |-> "none",
          users |-> ChangePasswordUpdate(email, new_password, salt)]

ChangePassword(email, token, new_password, salt) ==
    LET r == ChangePasswordResult(email, token, new_password, salt) IN
    /\ users' = r.users
    /\ lastPw' = [i \in 1..Len(users) |->
                     IF r.status = 200 /\ users[i].email = email
                     THEN new_password ELSE lastPw[i]]
    /\ consumed' = IF r.status = 200 /\ token \in IssuedTokens
                   THEN {p \in consumed : <<p[1], p[2]>> # <<email, token>>}
                        \cup {<<email, token, FALSE>>}
                   ELSE IF r.status = 401 /\ <<email, token, FALSE>> \in consumed
                   THEN (consumed \ {<<email, token, FALSE>>})
                        \cup {<<email, token, TRUE>>}
                   ELSE consumed
    /\ resp' = Response("change_password", r)
    /\ UNCHANGED <<session, now, issuedAt, authOf, posts, comments, reqs, post, conn, superseded>>

\* The JSON body reset_password sends with its status.
ResetPasswordBody(email) ==
    LET r == ResetPasswordResult(email) IN
    [error |-> r.error,
     message |-> IF r.status = 200 THEN "If email exists, reset instructions sent" ELSE "",
     reset_token |-> r.token]

\* change_password as its two statements on the connection every request
\* shares: the SELECT that verifies the token, then the UPDATE with its
\* commit. A request that has answered keeps its status.
ChangePasswordSelect(q, email, token, new_password, salt) ==
    LET verified == ChangePasswordResult(email, token, new_password, salt) IN
    /\ reqs[q].pc = "idle"
    /\ reqs' = [reqs EXCEPT ![q] =
                  [IdleReq EXCEPT
                     !.pc = IF verified.status = 200 THEN "update" ELSE "done",
                     !.email = email, !.password = new_password,
                     !.salt = salt, !.token = token,
                     !.status = IF verified.status = 200 THEN 0 ELSE verified.status]]
    /\ resp' = IF verified.status = 200 THEN resp
               ELSE Response("change_password", [verified EXCEPT !.users = users])
    /\ UNCHANGED <<users, session, now, lastPw, issuedAt, consumed, authOf,
                   posts, comments, post, conn, superseded>>

ChangePasswordExecute(q) ==
    LET a == reqs[q] IN
    /\ a.pc = "update"
    /\ users' = ChangePasswordUpdate(a.email, a.password, a.salt)
    /\ lastPw' = [i \in 1..Len(users) |->
                     IF users[i].email = a.email THEN a.password ELSE lastPw[i]]
    /\ resp' = [op |-> "change_password", status |-> 200, error |-> "", effect |-> "none"]
    /\ reqs' = [reqs EXCEPT ![q] = [a EXCEPT !.pc = "done", !.status = 200]]
    /\ UNCHANGED <<session, now, issuedAt, consumed, authOf, posts, comments, post, conn, superseded>>

Tick ==
    /\ now < MaxTime
    /\ now' = now + 1
    /\ UNCHANGED <<users, session, resp, lastPw, issuedAt, consumed, authOf, posts, comments, reqs, post, conn, superseded>>

(***************************************************************************)
(* app/routes/admin.py                                                     *)
(***************************************************************************)
\* require_admin without its second test.
require_admin_LoginOnly(c) ==
    IF "user_id" \notin session[c].keys
    THEN [status |-> 401, error |-> "Authentication required"]
    ELSE [status |-> 0, error |-> ""]

\* None (status 0) when the session may proceed.
require_admin(c) ==
    IF "user_id" \notin session[c].keys
    THEN [status |-> 401, error |-> "Authentication required"]
    ELSE IF ~session[c].is_admin
    THEN [status |-> 403, error |-> "Admin privileges required"]
    ELSE [status |-> 0, error |-> ""]

\* What each admin route does once require_admin lets the request through.
AdminEffect ==
    [list_users    |-> "select:users",
     create_backup |-> "shell:sqlite3 .dump",
     system_info   |-> "shell:command",
     load_config   |-> "yaml.load",
     get_file      |-> "send_file",
     view_logs     |-> "shell:tail"]

AdminOps == DOMAIN AdminEffect

\* list_users, create_backup, system_info, load_config, get_file, view_logs.
AdminOpResult(c, op) ==
    LET error == require_admin(c) IN
    IF error.status # 0
    THEN [status |-> error.status, error |-> error.error, effect |-> "none"]
    ELSE [status |-> 200, error |-> "", effect |-> AdminEffect[op]]

AdminOp(c, op) ==
    /\ resp' = Response(op, AdminOpResult(c, op))
    /\ UNCHANGED <<users, session, now, lastPw, issuedAt, consumed, authOf,
                   posts, comments, reqs, post, conn, superseded>>

\* UPDATE users SET is_admin = 1 WHERE id = ?
PromoteUserUpdate(user_id) ==
    [i \in 1..Len(users) |->
        IF users[i].id = user_id
        THEN [users[i] EXCEPT !.is_admin = TRUE]
        ELSE users[i]]

PromoteUserResult(c, user_id) ==
    LET error == require_admin(c) IN
    IF error.status # 0
    THEN [status |-> error.status, error |-> error.error, effect |-> "none",
          users |-> users]
    ELSE [status |-> 200, error |-> "", effect |-> "none",
          users |-> PromoteUserUpdate(user_id)]

PromoteUser(c, user_id) ==
    LET r == PromoteUserResult(c, user_id) IN
    /\ users' = r.users
    /\ resp' = Response("promote_user", r)
    /\ UNCHANGED <<session, now, lastPw, issuedAt, consumed, authOf,
                   posts, comments, reqs, post, conn, superseded>>

(***************************************************************************)
(* app/routes/api.py                                                       *)
(***************************************************************************)
ExportUsersResult(c) ==
    IF "user_id" \notin session[c].keys \/ ~session[c].is_admin
    THEN [status |-> 403, error |-> "Admin access required", effect |-> "none"]
    ELSE [status |-> 200, error |-> "", effect |-> "select:users"]

ExportUsers(c) ==
    /\ resp' = Response("export_users", ExportUsersResult(c))
    /\ UNCHANGED <<users, session, now, lastPw, issuedAt, consumed, authOf,
                   posts, comments, reqs, post, conn, superseded>>

ExportSessionResult(c) ==
    IF "user_id" \notin session[c].keys
    THEN [status |-> 401, error |-> "No active session", effect |-> "none"]
    ELSE [status |-> 200, error |-> "", effect |-> "pickle.dumps"]

ExportSession(c) ==
    /\ resp' = Response("export_session", ExportSessionResult(c))
    /\ UNCHANGED <<users, session, now, lastPw, issuedAt, consumed, authOf,
                   posts, comments, reqs, post, conn, superseded>>

\* The request body of /api/session/import: data is absent (""), is not a
\* pickled dict ("garbage"), or unpickles to the dict the client chose.
ImportPayloads ==
    { [data |-> "", dict |-> EmptySession],
      [data |-> "garbage", dict |-> EmptySession],
      [data |-> "pickle", dict |-> [keys |-> {"is_admin"}, user_id |-> 0,
                                    username |-> "", is_admin |-> TRUE]],
      [data |-> "pickle", dict |-> [keys |-> {"user_id", "username", "is_admin"},
                                    user_id |-> 2, username |-> "bob",
                                    is_admin |-> TRUE]] }

\* for key, value in session_dict.items(): session[key] = value
ImportSessionResult(c, payload) ==
    IF payload.data = ""
    THEN [status |-> 400, error |-> "Session data required", effect |-> "none",
          session |-> session[c]]
    ELSE IF payload.data # "pickle"
    THEN [status |-> 400, error |-> "Invalid session data", effect |-> "none",
          session |-> session[c]]
    ELSE LET d == payload.dict
             has(k) == k \in d.keys IN
         [status |-> 200, error |-> "", effect |-> "pickle.loads",
          session |-> [keys |-> session[c].keys \cup d.keys,
                       user_id |-> IF has("user_id") THEN d.user_id
                                   ELSE session[c].user_id,
                       username |-> IF has("username") THEN d.username
                                    ELSE session[c].username,
                       is_admin |-> IF has("is_admin") THEN d.is_admin
                                    ELSE session[c].is_admin]]

ImportSession(c, payload) ==
    LET r == ImportSessionResult(c, payload) IN
    /\ session' = [session EXCEPT ![c] = r.session]
    /\ resp' = Response("import_session", r)
    /\ UNCHANGED <<users, now, lastPw, issuedAt, consumed, authOf,
                   posts, comments, reqs, post, conn, superseded>>

(***************************************************************************)
(* app/models/post.py: a title is the sequence of its characters.          *)
(***************************************************************************)
LowerOf == [A |-> "a", B |-> "b", H |-> "h", W |-> "w"]

\* str.lower()
Lower(ch) == IF ch \in DOMAIN LowerOf THEN LowerOf[ch] ELSE ch

\* \w, \s and the run [-\s] of the two regular expressions.
IsWord(ch)  == ch \in {"a", "b", "h", "i", "w", "A", "B", "H", "W", "1", "2", "_"}
IsSpace(ch) == ch \in {" ", "\t"}
IsSep(ch)   == ch = "-" \/ IsSpace(ch)

RECURSIVE DropSeps(_)
DropSeps(s) ==
    IF s # <<>> /\ IsSep(Head(s)) THEN DropSeps(Tail(s)) ELSE s

\* The second substitution without its "+": one hyphen for each character.
RECURSIVE CollapseSeps_EachSep(_)
CollapseSeps_EachSep(s) ==
    IF s = <<>> THEN <<>>
    ELSE IF IsSep(Head(s)) THEN <<"-">> \o CollapseSeps_EachSep(Tail(s))
    ELSE <<Head(s)>> \o CollapseSeps_EachSep(Tail(s))

\* re.sub(r'[-\s]+', '-', slug)
RECURSIVE CollapseSeps(_)
CollapseSeps(s) ==
    IF s = <<>> THEN <<>>
    ELSE IF IsSep(Head(s)) THEN <<"-">> \o CollapseSeps(DropSeps(s))
    ELSE <<Head(s)>> \o CollapseSeps(Tail(s))

\* The two substitutions in the other order.
generate_slug_CollapseFirst(title) ==
    LET lowered == [i \in 1..Len(title) |-> Lower(title[i])]
    IN SelectSeq(CollapseSeps(lowered), LAMBDA ch : IsWord(ch) \/ IsSep(ch))

\* Post._generate_slug
generate_slug(title) ==
    LET lowered == [i \in 1..Len(title) |-> Lower(title[i])]
        kept == SelectSeq(lowered, LAMBDA ch : IsWord(ch) \/ IsSep(ch))
    IN CollapseSeps(kept)

\* The titles of the slug derivation: every string of at most MaxTitleLen
\* characters over letters of both cases, a digit, whitespace, hyphen,
\* underscore and punctuation.
MaxTitleLen == 3
TitleChars == {"A", "b", "1", " ", "-", "_", "!"}
SlugTitles == UNION {[1..n -> TitleChars] : n \in 0..MaxTitleLen}

\* A JSON field that is absent or null arrives as None.
None == NULL

\* A test for None alone ("is not None"), which lets "" through.
Falsy_NoneOnly(v) == v = None

\* None and "" are falsy.
Falsy(v) == v = None \/ v = ""

\* The same for a title, which is a sequence of characters.
NoneTitle == <<None>>
FalsyTitle(t) == t = NoneTitle \/ t = <<>>

\* No Post object yet.
NoPost ==
    [title |-> <<>>, content |-> "", author_id |-> 0, slug |-> <<>>,
     created_at |-> -1, updated_at |-> -1, published |-> FALSE, tags |-> ""]

\* Post.__init__ at time t (datetime.utcnow()).
PostInit(title, content, author_id, slug, t) ==
    [title |-> title, content |-> content, author_id |-> author_id,
     slug |-> IF FalsyTitle(slug) THEN generate_slug(title) ELSE slug,
     created_at |-> t, updated_at |-> t, published |-> FALSE, tags |-> ""]

\* An update that rebuilds the object as a new, unpublished one.
PostUpdate_Unpublishes(p, title, content, tags, t) ==
    [p EXCEPT !.title   = IF FalsyTitle(title) THEN @ ELSE title,
              !.slug    = IF FalsyTitle(title) THEN @ ELSE generate_slug(title),
              !.content = IF Falsy(content) THEN @ ELSE content,
              !.tags    = IF Falsy(tags) THEN @ ELSE tags,
              !.published = FALSE,
              !.updated_at = t]

\* Post.update at time t.
PostUpdate(p, title, content, tags, t) ==
    [p EXCEPT !.title   = IF FalsyTitle(title) THEN @ ELSE title,
              !.slug    = IF FalsyTitle(title) THEN @ ELSE generate_slug(title),
              !.content = IF Falsy(content) THEN @ ELSE content,
              !.tags    = IF Falsy(tags) THEN @ ELSE tags,
              !.updated_at = t]

\* Post.publish at time t.
PostPublish(p, t) ==
    [p EXCEPT !.published = TRUE, !.updated_at = t]

\* A caller constructs a Post: Post(title, content, author_id).
NewPost(title, content, author_id) ==
    /\ post = NoPost
    /\ post' = PostInit(title, content, author_id, NoneTitle, now)
    /\ resp' = [op |-> "Post", status |-> 0, error |-> "", effect |-> "none"]
    /\ UNCHANGED <<users, session, now, lastPw, issuedAt, consumed, authOf,
                   posts, comments, reqs, conn, superseded>>

\* A caller constructs a Post whose title is the slug of the one it holds.
NewPostFromSlug ==
    /\ post # NoPost
    /\ post' = PostInit(post.slug, post.content, post.author_id, NoneTitle, now)
    /\ resp' = [op |-> "Post(slug)", status |-> 0, error |-> "", effect |-> "none"]
    /\ UNCHANGED <<users, session, now, lastPw, issuedAt, consumed, authOf,
                   posts, comments, reqs, conn, superseded>>

\* A caller updates the Post it holds: post.update(title, content, tags).
PostUpdateCall(title, content, tags) ==
    /\ post # NoPost
    /\ post' = PostUpdate(post, title, content, tags, now)
    /\ resp' = [op |-> "Post.update", status |-> 0, error |-> "", effect |-> "none"]
    /\ UNCHANGED <<users, session, now, lastPw, issuedAt, consumed, authOf,
                   posts, comments, reqs, conn, superseded>>

\* A caller publishes the Post it holds: post.publish().
PostPublishCall ==
    /\ post # NoPost
    /\ post' = PostPublish(post, now)
    /\ resp' = [op |-> "Post.publish", status |-> 0, error |-> "", effect |-> "none"]
    /\ UNCHANGED <<users, session, now, lastPw, issuedAt, consumed, authOf,
                   posts, comments, reqs, conn, superseded>>

(***************************************************************************)
(* app/routes/posts.py                                                     *)
(***************************************************************************)
MaxPosts == 1
MaxComments == 1

Titles   == {<<"H", "i", "!">>, <<"A", " ", "b">>}
Contents == {"text1", "text2"}
Tags     == {"a"}

\* post = Post(title, content, session['user_id']); post.tags = tags; INSERT.
\* created_at and updated_at are not among the INSERT's columns: the row gets
\* the time of the INSERT.
CreatePostInsert(title, content, author_id, tags) ==
    Append(posts,
           [id |-> Len(posts) + 1, title |-> title, content |-> content,
            author_id |-> author_id, slug |-> generate_slug(title),
            tags |-> tags, published |-> FALSE,
            created_at |-> now, updated_at |-> now])

CreatePostResult(c, title, content, tags) ==
    IF "user_id" \notin session[c].keys
    THEN [status |-> 401, error |-> "Authentication required", effect |-> "none",
          posts |-> posts]
    ELSE IF FalsyTitle(title) \/ Falsy(content)
    THEN [status |-> 400, error |-> "Title and content required", effect |-> "none",
          posts |-> posts]
    ELSE [status |-> 201, error |-> "", effect |-> "none",
          posts |-> CreatePostInsert(title, content, session[c].user_id, tags)]

CreatePost(c, title, content, tags) ==
    LET r == CreatePostResult(c, title, content, tags) IN
    /\ Len(posts) < MaxPosts
    /\ posts' = r.posts
    /\ resp' = Response("create_post", r)
    /\ UNCHANGED <<users, session, now, lastPw, issuedAt, consumed, authOf,
                   comments, reqs, post, conn, superseded>>

\* comment = Comment(post_id, session['user_id'], content); INSERT.
AddCommentInsert(post_id, user_id, content) ==
    Append(comments,
           [id |-> Len(comments) + 1, post_id |-> post_id,
            user_id |-> user_id, content |-> content,
            is_approved |-> TRUE])

\* add_comment without its session test.
AddCommentResult_NoAuthCheck(c, post_id, content) ==
    IF Falsy(content)
    THEN [status |-> 400, error |-> "Comment content required", effect |-> "none",
          comments |-> comments]
    ELSE [status |-> 201, error |-> "", effect |-> "none",
          comments |-> AddCommentInsert(post_id, session[c].user_id, content)]

AddCommentResult(c, post_id, content) ==
    IF "user_id" \notin session[c].keys
    THEN [status |-> 401, error |-> "Authentication required", effect |-> "none",
          comments |-> comments]
    ELSE IF Falsy(content)
    THEN [status |-> 400, error |-> "Comment content required", effect |-> "none",
          comments |-> comments]
    ELSE [status |-> 201, error |-> "", effect |-> "none",
          comments |-> AddCommentInsert(post_id, session[c].user_id, content)]

AddComment(c, post_id, content) ==
    LET r == AddCommentResult(c, post_id, content) IN
    /\ Len(comments) < MaxComments
    /\ comments' = r.comments
    /\ resp' = Response("add_comment", r)
    /\ UNCHANGED <<users, session, now, lastPw, issuedAt, consumed, authOf,
                   posts, reqs, post, conn, superseded>>

\* The ownership check without "AND author_id = ?".
PostsOfAnyAuthor(post_id, user_id) ==
    SelectSeq(posts, LAMBDA r : r.id = post_id)

\* SELECT * FROM posts WHERE id = ? AND author_id = ?
PostsOwnedBy(post_id, user_id) ==
    SelectSeq(posts, LAMBDA r : r.id = post_id /\ r.author_id = user_id)

\* The UPDATE statements writing every field, supplied or not.
UpdatePostRows_SetsAll(post_id, title, content, tags) ==
    [i \in 1..Len(posts) |->
        IF posts[i].id = post_id
        THEN [posts[i] EXCEPT !.title = title, !.content = content, !.tags = tags]
        ELSE posts[i]]

\* The UPDATE statements of update_post, one per field that is truthy.
UpdatePostRows(post_id, title, content, tags) ==
    [i \in 1..Len(posts) |->
        IF posts[i].id = post_id
        THEN [posts[i] EXCEPT
                !.title   = IF FalsyTitle(title) THEN @ ELSE title,
                !.content = IF Falsy(content) THEN @ ELSE content,
                !.tags    = IF Falsy(tags) THEN @ ELSE tags]
        ELSE posts[i]]

UpdatePostResult(c, post_id, title, content, tags) ==
    IF "user_id" \notin session[c].keys
    THEN [status |-> 401, error |-> "Authentication required", effect |-> "none",
          posts |-> posts]
    ELSE IF PostsOwnedBy(post_id, session[c].user_id) = <<>>
    THEN [status |-> 404, error |-> "Post not found or unauthorized", effect |-> "none",
          posts |-> posts]
    ELSE [status |-> 200, error |-> "", effect |-> "none",
          posts |-> UpdatePostRows(post_id, title, content, tags)]

UpdatePost(c, post_id, title, content, tags) ==
    LET r == UpdatePostResult(c, post_id, title, content, tags) IN
    /\ posts' = r.posts
    /\ resp' = Response("update_post", r)
    /\ UNCHANGED <<users, session, now, lastPw, issuedAt, consumed, authOf,
                   comments, reqs, post, conn, superseded>>

(***************************************************************************)
(* app/utils/database.py: the query helpers. A statement is the text the   *)
(* code builds; what it selects is what that text denotes.                 *)
(***************************************************************************)
\* What a caller may send for a string: a plain value and the two values
\* that are not plain once pasted between quotes.
CallerStrings == {"a", SqlTautology, SqlBroken}

\* filter_posts_by_tags: f"SELECT * FROM posts WHERE tags LIKE '%{tags}%'"
FilterPostsByTagsQuery(tags) ==
    "SELECT * FROM posts WHERE tags LIKE '%" \o tags \o "%'"

\* get_user_posts: bound parameter for 'all', f-string otherwise.
GetUserPostsQuery(user_id, status) ==
    IF status = "all"
    THEN "SELECT * FROM posts WHERE author_id = ? ORDER BY created_at DESC"
    ELSE "SELECT * FROM posts WHERE author_id = " \o ToString(user_id)
         \o " AND status = '" \o status \o "' ORDER BY created_at DESC"

\* search_users_by_role
SearchUsersByRoleQuery(role) ==
    "SELECT id, username, email, role FROM users WHERE role = '" \o role \o "'"

\* get_post_analytics
GetPostAnalyticsQuery(metric) ==
    "SELECT " \o metric \o " FROM post_analytics WHERE post_id = ?"

\* update_user_profile
UpdateUserProfileQuery(field) ==
    "UPDATE users SET " \o field \o " = ? WHERE id = ?"

\* change_password
ChangePasswordQuery(email, token) ==
    "SELECT * FROM users WHERE email = '" \o email
    \o "' AND reset_token = '" \o token \o "'"

\* export_users: the filters appended when they are truthy.
ExportUsersQuery(role, created_after) ==
    "SELECT id, username, email, created_at FROM users WHERE 1=1"
    \o (IF Falsy(role) THEN "" ELSE " AND role = '" \o role \o "'")
    \o (IF Falsy(created_after) THEN ""
        ELSE " AND created_at > '" \o created_after \o "'")

\* The stored tag lists: the strings of at most MaxTagLen characters over two
\* letters and the comma.
MaxTagLen == 3
TagChars == {"a", "b", ","}

RECURSIVE StringsUpTo(_)
StringsUpTo(n) ==
    IF n = 0 THEN {""}
    ELSE LET shorter == StringsUpTo(n - 1)
         IN shorter \cup {p \o ch : p \in shorter, ch \in TagChars}

TagStrings == StringsUpTo(MaxTagLen)

\* tags LIKE '%inner%': value holds inner as a substring (the strings here
\* are lower case and hold neither % nor _).
Like(value, inner) ==
    /\ value # NULL
    /\ \/ inner = ""
       \/ value = inner
       \/ \E pre, suf \in TagStrings : value = pre \o inner \o suf

\* execute_query: the rows of the statement, or, when cursor.execute raised
\* (failed), the error in the log and [] as the value returned.
execute_query(rows, failed) ==
    [status |-> 0, error |-> IF failed THEN "Query error" ELSE "",
     effect |-> IF failed \/ rows = <<>> THEN "[]" ELSE "rows",
     rows |-> IF failed THEN <<>> ELSE rows]

\* filter_posts_by_tags: the text with SqlBroken pasted in does not parse;
\* with SqlTautology it reads tags LIKE '%' OR '1'='1%'. The same
\* try/except as execute_query.
FilterPostsByTagsResult(tags, failed) ==
    LET rows == IF tags = SqlTautology
                THEN SelectSeq(posts, LAMBDA r : Like(r.tags, ""))
                ELSE SelectSeq(posts, LAMBDA r : Like(r.tags, tags))
        raised == failed \/ tags = SqlBroken
    IN [status |-> 0, error |-> IF raised THEN "Tag filter error" ELSE "",
        effect |-> IF raised \/ rows = <<>> THEN "[]" ELSE "rows",
        rows |-> IF raised THEN <<>> ELSE rows]

\* search_users_by_role: the same try/except; the text with SqlBroken pasted
\* in does not parse.
SearchUsersByRoleResult(role, failed) ==
    LET raised == failed \/ role = SqlBroken
    IN [status |-> 0, error |-> IF raised THEN "Role search error" ELSE "",
        effect |-> IF raised THEN "[]" ELSE SearchUsersByRoleQuery(role),
        rows |-> <<>>]

\* register's existence check through execute_query, the backend failing or not.
ExecuteQuery(username, email, failed) ==
    /\ resp' = Response("execute_query",
                        execute_query(UsersByUsernameOrEmail(username, email), failed))
    /\ UNCHANGED <<users, session, now, lastPw, issuedAt, consumed, authOf,
                   posts, comments, reqs, post, conn, superseded>>

FilterPostsByTags(tags, failed) ==
    /\ resp' = Response("filter_posts_by_tags", FilterPostsByTagsResult(tags, failed))
    /\ UNCHANGED <<users, session, now, lastPw, issuedAt, consumed, authOf,
                   posts, comments, reqs, post, conn, superseded>>

SearchUsersByRole(role, failed) ==
    /\ resp' = Response("search_users_by_role", SearchUsersByRoleResult(role, failed))
    /\ UNCHANGED <<users, session, now, lastPw, issuedAt, consumed, authOf,
                   posts, comments, reqs, post, conn, superseded>>

(***************************************************************************)
(* The handlers that write, statement by statement, on the one connection  *)
(* of the process. sqlite3 opens a transaction before the first INSERT or  *)
(* UPDATE executed while none is open; db.commit() makes everything        *)
(* executed on the connection since then durable, db.rollback() undoes     *)
(* it, whichever request executed it. users, posts and comments are the    *)
(* tables as a statement on the connection sees them; conn holds them as   *)
(* of the last commit while a transaction is open. The histories lastPw,   *)
(* issuedAt, consumed and superseded follow the one-step handlers only.    *)
(***************************************************************************)
WriteOps ==
    {"register", "create_post", "add_comment", "update_post",
     "reset_password", "change_password", "promote_user"}

\* The handler wraps its statements in try/except with db.rollback();
\* reset_password executes and commits outside any try.
RollsBack(op) == op # "reset_password"

\* The answer when execute or commit raises: the handler's own 500, or,
\* with no handler, the server's.
FailureError ==
    [register        |-> "Registration failed",
     create_post     |-> "Failed to create post",
     add_comment     |-> "Failed to add comment",
     update_post     |-> "Update failed",
     reset_password  |-> "Internal Server Error",
     change_password |-> "Password change failed",
     promote_user    |-> "Promotion failed"]

SuccessStatus ==
    [register |-> 201, create_post |-> 201, add_comment |-> 201, update_post |-> 200,
     reset_password |-> 200, change_password |-> 200, promote_user |-> 200]

\* A call of handler op from client c, its inputs still to be filled in.
Call(op, c) == [IdleReq EXCEPT !.op = op, !.c = c]

\* What the handler answers before its first write statement, if it does:
\* the validation, the session test and the SELECT of each handler.
EarlyAnswer(a) ==
    LET go == [returns |-> FALSE, status |-> 0, error |-> ""]
        stop(r) == [returns |-> TRUE, status |-> r.status, error |-> r.error]
        pass(r, ok) == IF r.status = ok THEN go ELSE stop(r)
    IN CASE a.op = "register" ->
              pass(RegisterCheck(a.username, a.email, a.password), 0)
         [] a.op = "create_post" ->
              pass(CreatePostResult(a.c, a.title, a.content, a.tags), 201)
         [] a.op = "add_comment" ->
              pass(AddCommentResult(a.c, a.id, a.content), 201)
         [] a.op = "update_post" ->
              pass(UpdatePostResult(a.c, a.id, a.title, a.content, a.tags), 200)
         [] a.op = "reset_password" ->
              IF ResetPasswordResult(a.email).token = NULL
              THEN stop(ResetPasswordResult(a.email))
              ELSE go
         [] a.op = "change_password" ->
              pass(ChangePasswordResult(a.email, a.token, a.password, a.salt), 200)
         [] a.op = "promote_user" ->
              pass(PromoteUserResult(a.c, a.id), 200)

\* The fields update_post writes, in the order of its UPDATEs.
UpdateFields(a) ==
    SelectSeq(<<"title", "content", "tags">>,
              LAMBDA f : CASE f = "title"   -> ~FalsyTitle(a.title)
                           [] f = "content" -> ~Falsy(a.content)
                           [] f = "tags"    -> ~Falsy(a.tags))

\* The number of write statements of the call: one UPDATE for each truthy
\* field of update_post, one INSERT or UPDATE for every other handler.
StatementCount(a) ==
    IF a.op = "update_post" THEN Len(UpdateFields(a)) ELSE 1

\* The call's next statement, executed on the tables as the connection
\* shows them: whether it raises, and the tables after it.
Statement(a) ==
    LET same == [raised |-> FALSE, users |-> users, posts |-> posts,
                 comments |-> comments]
    IN CASE a.op = "register" ->
              [same EXCEPT !.raised = UniqueViolation(users, a.username, a.email),
                           !.users = RegisterInsert(a.username, a.email,
                                                    a.password, a.salt).users]
         [] a.op = "create_post" ->
              [same EXCEPT !.posts = CreatePostInsert(a.title, a.content,
                                                      a.user_id, a.tags)]
         [] a.op = "add_comment" ->
              [same EXCEPT !.comments = AddCommentInsert(a.id, a.user_id, a.content)]
         [] a.op = "update_post" ->
              LET f == UpdateFields(a)[a.step + 1] IN
              [same EXCEPT !.posts =
                  UpdatePostRows(a.id,
                                 IF f = "title" THEN a.title ELSE NoneTitle,
                                 IF f = "content" THEN a.content ELSE None,
                                 IF f = "tags" THEN a.tags ELSE None)]
         [] a.op = "reset_password" ->
              [same EXCEPT !.users = ResetPasswordUpdate(a.email, a.token)]
         [] a.op = "change_password" ->
              [same EXCEPT !.users = ChangePasswordUpdate(a.email, a.password, a.salt)]
         [] a.op = "promote_user" ->
              [same EXCEPT !.users = PromoteUserUpdate(a.id)]

\* db.rollback(): the tables as of the last commit, no transaction open.
Rollback ==
    IF conn.open
    THEN [users |-> conn.users, posts |-> conn.posts, comments |-> conn.comments]
    ELSE [users |-> users, posts |-> posts, comments |-> comments]

\* execute or commit has raised in call a: the except clause rolls back and
\* answers 500; without one the exception leaves the handler, the server
\* answers 500 and the connection stays as it is.
Failure(a) ==
    IF RollsBack(a.op)
    THEN [tables |-> Rollback, conn |-> NoTxn]
    ELSE [tables |-> [users |-> users, posts |-> posts, comments |-> comments],
          conn |-> conn]

\* The handler up to its first write statement.
WriteBegin(q, call) ==
    LET a == [call EXCEPT
                !.user_id = session[call.c].user_id,
                !.token = IF call.op = "reset_password"
                          THEN generate_password_reset_token(call.email, now)
                          ELSE @,
                !.before = [users |-> users, posts |-> posts, comments |-> comments]]
        early == EarlyAnswer(a)
        \* change_password's SELECT is inside its try: when it raises, the
        \* except clause rolls back.
        after == IF early.returns /\ early.status = 500
                 THEN Failure(a)
                 ELSE [tables |-> a.before, conn |-> conn]
    IN /\ reqs[q].pc = "idle"
       /\ call.op \in WriteOps
       /\ reqs' = [reqs EXCEPT ![q] =
                     IF early.returns
                     THEN [a EXCEPT !.pc = "done", !.status = early.status]
                     ELSE [a EXCEPT !.pc = "exec"]]
       /\ resp' = IF early.returns
                  THEN [op |-> a.op, status |-> early.status, error |-> early.error,
                        effect |-> "none"]
                  ELSE resp
       /\ users' = after.tables.users
       /\ posts' = after.tables.posts
       /\ comments' = after.tables.comments
       /\ conn' = after.conn
       /\ UNCHANGED <<session, now, lastPw, issuedAt, consumed, authOf, post, superseded>>

\* cursor.execute of the call's next write statement; failed when the
\* backend refuses it.
WriteExecute(q, failed) ==
    LET a == reqs[q]
        st == Statement(a)
        raised == failed \/ st.raised
        after == IF raised
                 THEN Failure(a)
                 ELSE [tables |-> [users |-> st.users, posts |-> st.posts,
                                   comments |-> st.comments],
                       conn |-> IF conn.open
                                THEN [conn EXCEPT !.pending = @ \cup {q}]
                                ELSE [open |-> TRUE, users |-> users, posts |-> posts,
                                      comments |-> comments, pending |-> {q}]]
    IN /\ a.pc = "exec"
       /\ a.step < StatementCount(a)
       /\ reqs' = [reqs EXCEPT ![q] =
                     IF raised
                     THEN [a EXCEPT !.pc = "done", !.status = 500]
                     ELSE [a EXCEPT !.step = @ + 1]]
       /\ resp' = IF raised
                  THEN [op |-> a.op, status |-> 500, error |-> FailureError[a.op],
                        effect |-> "none"]
                  ELSE resp
       /\ users' = after.tables.users
       /\ posts' = after.tables.posts
       /\ comments' = after.tables.comments
       /\ conn' = after.conn
       /\ UNCHANGED <<session, now, lastPw, issuedAt, consumed, authOf, post, superseded>>

\* db.commit() after the call's last write statement; failed when the
\* backend refuses it (the database file is locked or cannot be written).
WriteCommit(q, failed) ==
    LET a == reqs[q]
        after == IF failed
                 THEN Failure(a)
                 ELSE [tables |-> [users |-> users, posts |-> posts,
                                   comments |-> comments],
                       conn |-> NoTxn]
    IN /\ a.pc = "exec"
       /\ a.step = StatementCount(a)
       /\ reqs' = [reqs EXCEPT ![q] =
                     [a EXCEPT !.pc = "done",
                               !.status = IF failed THEN 500 ELSE SuccessStatus[a.op]]]
       /\ resp' = [op |-> a.op,
                   status |-> IF failed THEN 500 ELSE SuccessStatus[a.op],
                   error |-> IF failed THEN FailureError[a.op] ELSE "",
                   effect |-> "none"]
       /\ users' = after.tables.users
       /\ posts' = after.tables.posts
       /\ comments' = after.tables.comments
       /\ conn' = after.conn
       /\ UNCHANGED <<session, now, lastPw, issuedAt, consumed, authOf, post, superseded>>

\* login as its two parts: the SELECT through the connection with the
\* password check, then the three writes to the session.
LoginSelect(q, c, username, password) ==
    LET r == LoginResult(c, username, password) IN
    /\ reqs[q].pc = "idle"
    /\ reqs' = [reqs EXCEPT ![q] =
                  IF r.status = 200
                  THEN [Call("login", c) EXCEPT
                          !.pc = "session", !.id = r.session.user_id,
                          !.username = r.session.username,
                          !.is_admin = r.session.is_admin]
                  ELSE [Call("login", c) EXCEPT !.pc = "done", !.status = r.status]]
    /\ resp' = IF r.status = 200 THEN resp ELSE Response("login", r)
    /\ UNCHANGED <<users, session, now, lastPw, issuedAt, consumed, authOf,
                   posts, comments, post, conn, superseded>>

\* A login that ends with db.rollback().
LoginStore_RollsBack(q) ==
    LET a == reqs[q] IN
    /\ a.pc = "session"
    /\ session' = [session EXCEPT ![a.c] =
                     [keys |-> @.keys \cup {"user_id", "username", "is_admin"},
                      user_id |-> a.id, username |-> a.username,
                      is_admin |-> a.is_admin]]
    /\ authOf' = [authOf EXCEPT ![a.c] =
                    [kind |-> "login", user_id |-> a.id, username |-> a.username,
                     is_admin |-> a.is_admin]]
    /\ resp' = [op |-> "login", status |-> 200, error |-> "", effect |-> "none"]
    /\ reqs' = [reqs EXCEPT ![q] = [a EXCEPT !.pc = "done", !.status = 200]]
    /\ users' = Rollback.users
    /\ posts' = Rollback.posts
    /\ comments' = Rollback.comments
    /\ conn' = NoTxn
    /\ UNCHANGED <<now, lastPw, issuedAt, consumed, post, superseded>>

LoginStore(q) ==
    LET a == reqs[q] IN
    /\ a.pc = "session"
    /\ session' = [session EXCEPT ![a.c] =
                     [keys |-> @.keys \cup {"user_id", "username", "is_admin"},
                      user_id |-> a.id, username |-> a.username,
                      is_admin |-> a.is_admin]]
    /\ authOf' = [authOf EXCEPT ![a.c] =
                    [kind |-> "login", user_id |-> a.id, username |-> a.username,
                     is_admin |-> a.is_admin]]
    /\ resp' = [op |-> "login", status |-> 200, error |-> "", effect |-> "none"]
    /\ reqs' = [reqs EXCEPT ![q] = [a EXCEPT !.pc = "done", !.status = 200]]
    /\ UNCHANGED <<users, now, lastPw, issuedAt, consumed, posts, comments,
                   post, conn, superseded>>

(***************************************************************************)
(* Initial state: the store holds the seeded administrator, no client has  *)
(* a session, no request is in flight.                                     *)
(***************************************************************************)
SeedAdmin ==
    [id |-> 1, username |-> "alice", email |-> "a@x",
     password_hash |-> generate_password_hash("p1", "s1"),
     is_admin |-> TRUE, reset_token |-> NULL]

SeedUser ==
    [id |-> 2, username |-> "bob", email |-> "b@x",
     password_hash |-> generate_password_hash("p2", "s1"),
     is_admin |-> FALSE, reset_token |-> NULL]

Init ==
    /\ users = <<SeedAdmin>>
    /\ lastPw = <<"p1">>
    /\ issuedAt = <<-1>>
    /\ session = [c \in Clients |-> EmptySession]
    /\ authOf = [c \in Clients |-> NoAuth]
    /\ now = 0
    /\ resp = NoResp
    /\ consumed = {}
    /\ posts = <<>>
    /\ comments = <<>>
    /\ reqs = [q \in Requests |-> IdleReq]
    /\ post = NoPost
    /\ conn = NoTxn
    /\ superseded = {}

\* The credential store: registration and password reset, as time passes.
\* No step here reads a password hash, so one salt stands for all.
Next ==
    \/ \E u \in Usernames \cup {""}, e \in Emails, p \in Passwords, s \in {"s1"} :
          Register(u, e, p, s)
    \/ \E e \in Emails \cup {""} : ResetPassword(e)
    \/ \E e \in Emails, t \in ClientTokens \cup {""}, p \in Passwords, s \in {"s1"} :
          ChangePassword(e, t, p, s)
    \/ Tick

Spec == Init /\ [][Next]_vars

\* Login from one client, with the routes that set a password.
NextLogin ==
    \/ \E u \in Usernames, e \in Emails, p \in Passwords, s \in Salts :
          Register(u, e, p, s)
    \/ \E u \in Usernames, p \in Passwords \cup {""} : Login("c1", u, p)
    \/ Logout("c1")
    \/ \E e \in Emails : ResetPassword(e)
    \/ \E e \in Emails, t \in ClientTokens, p \in Passwords, s \in Salts :
          ChangePassword(e, t, p, s)

SpecLogin == Init /\ [][NextLogin]_vars

\* Sessions and the admin routes, on a store that holds alice and bob.
InitSession ==
    /\ users = <<SeedAdmin, SeedUser>>
    /\ lastPw = <<"p1", "p2">>
    /\ issuedAt = <<-1, -1>>
    /\ session = [c \in Clients |-> EmptySession]
    /\ authOf = [c \in Clients |-> NoAuth]
    /\ now = 0
    /\ resp = NoResp
    /\ consumed = {}
    /\ posts = <<>>
    /\ comments = <<>>
    /\ reqs = [q \in Requests |-> IdleReq]
    /\ post = NoPost
    /\ conn = NoTxn
    /\ superseded = {}

NextSession ==
    \/ \E c \in Clients, u \in Usernames, p \in Passwords : Login(c, u, p)
    \/ \E c \in Clients : Logout(c)
    \/ \E c \in Clients, d \in ImportPayloads : ImportSession(c, d)
    \/ \E c \in Clients : ExportSession(c)
    \/ \E c \in Clients, op \in AdminOps : AdminOp(c, op)
    \/ \E c \in Clients, id \in 1..3 : PromoteUser(c, id)
    \/ \E c \in Clients : ExportUsers(c)

SpecSession == InitSession /\ [][NextSession]_vars
\* The post routes, on a store that holds alice and bob, from one client.
PostIds == 1..(MaxPosts + 1)

NextPosts ==
    \/ \E u \in Usernames, p \in Passwords : Login("c1", u, p)
    \/ Logout("c1")
    \/ \E d \in ImportPayloads : ImportSession("c1", d)
    \/ \E t \in Titles \cup {<<>>}, b \in Contents, g \in Tags \cup {""} :
          CreatePost("c1", t, b, g)
    \/ \E id \in PostIds, t \in Titles \cup {NoneTitle}, b \in Contents \cup {None},
          g \in Tags \cup {""} :
          UpdatePost("c1", id, t, b, g)

SpecPosts == InitSession /\ [][NextPosts]_vars
\* Two register requests interleaving on an empty store.
InitRace ==
    /\ users = <<>>
    /\ lastPw = <<>>
    /\ issuedAt = <<>>
    /\ session = [c \in Clients |-> EmptySession]
    /\ authOf = [c \in Clients |-> NoAuth]
    /\ now = 0
    /\ resp = NoResp
    /\ consumed = {}
    /\ posts = <<>>
    /\ comments = <<>>
    /\ reqs = [q \in Requests |-> IdleReq]
    /\ post = NoPost
    /\ conn = NoTxn
    /\ superseded = {}

NextRace ==
    \/ \E q \in Requests, u \in Usernames, e \in Emails, p \in Passwords, s \in Salts :
          RegisterSelect(q, u, e, p, s)
    \/ \E q \in Requests : RegisterExecute(q)

SpecRace == InitRace /\ [][NextRace]_vars
\* Two change_password requests interleaving, after reset_password has
\* stored alice's token at time 0.
InitResetRace ==
    /\ users = <<[SeedAdmin EXCEPT
                    !.reset_token = generate_password_reset_token("a@x", 0)]>>
    /\ lastPw = <<"p1">>
    /\ issuedAt = <<0>>
    /\ session = [c \in Clients |-> EmptySession]
    /\ authOf = [c \in Clients |-> NoAuth]
    /\ now = 0
    /\ resp = [op |-> "reset_password", status |-> 200, error |-> "", effect |-> "none"]
    /\ consumed = {}
    /\ posts = <<>>
    /\ comments = <<>>
    /\ reqs = [q \in Requests |-> IdleReq]
    /\ post = NoPost
    /\ conn = NoTxn
    /\ superseded = {}

NextResetRace ==
    \/ \E q \in Requests, e \in Emails, t \in ClientTokens, p \in Passwords, s \in Salts :
          ChangePasswordSelect(q, e, t, p, s)
    \/ \E q \in Requests : ChangePasswordExecute(q)

SpecResetRace == InitResetRace /\ [][NextResetRace]_vars

\* The query helpers, on the posts alice and bob create.
NextQuery ==
    \/ \E u \in Usernames, p \in Passwords : Login("c1", u, p)
    \/ \E t \in Titles, g \in Tags \cup {""} : CreatePost("c1", t, "text1", g)
    \/ \E u \in Usernames \cup {"carol"}, e \in Emails, f \in BOOLEAN : ExecuteQuery(u, e, f)
    \/ \E g \in CallerStrings \cup {""}, f \in BOOLEAN : FilterPostsByTags(g, f)
    \/ \E r \in CallerStrings, f \in BOOLEAN : SearchUsersByRole(r, f)

SpecQuery == InitSession /\ [][NextQuery]_vars

\* Posts and their comments, from one client that logs in and out.
NextComments ==
    \/ \E u \in Usernames, p \in Passwords : Login("c1", u, p)
    \/ Logout("c1")
    \/ \E d \in ImportPayloads : ImportSession("c1", d)
    \/ \E t \in Titles \cup {<<>>}, g \in Tags : CreatePost("c1", t, "text1", g)
    \/ \E id \in PostIds, b \in Contents \cup {""} : AddComment("c1", id, b)

SpecComments == InitSession /\ [][NextComments]_vars

\* A Post object in memory and the posts table, written by alice.
NextEntity ==
    \/ \E u \in Usernames : Login("c1", u, "p1")
    \/ \E t \in Titles, g \in Tags \cup {""} : CreatePost("c1", t, "text1", g)
    \/ \E id \in PostIds, t \in Titles \cup {NoneTitle}, b \in {"text2", None},
          g \in Tags \cup {None} :
          UpdatePost("c1", id, t, b, g)
    \/ \E t \in Titles : NewPost(t, "text1", 1)
    \/ \E t \in Titles \cup {NoneTitle}, b \in {"text2", None}, g \in Tags \cup {None} :
          PostUpdateCall(t, b, g)

SpecEntity == InitSession /\ [][NextEntity]_vars

\* The same as time passes.
NextClock ==
    \/ NextEntity
    \/ Tick

SpecClock == InitSession /\ [][NextClock]_vars

\* The slug derivation, on every title of SlugTitles.
NextSlug ==
    \/ \E t \in SlugTitles : NewPost(t, "text1", 1)
    \/ NewPostFromSlug

SpecSlug == Init /\ [][NextSlug]_vars

\* Updates that carry empty values: alice's post 'Hi!' and a Post object,
\* each updated with a title that is empty or 'A b', a content that is empty
\* or 'text2', and tags that are empty or 'a'.
NextEmpty ==
    \/ \E u \in Usernames : Login("c1", u, "p1")
    \/ \E g \in Tags \cup {""} : CreatePost("c1", <<"H", "i", "!">>, "text1", g)
    \/ \E id \in PostIds, t \in {<<>>, <<"A", " ", "b">>}, b \in {"", "text2"},
          g \in Tags \cup {""} :
          UpdatePost("c1", id, t, b, g)
    \/ NewPost(<<"H", "i", "!">>, "text1", 1)
    \/ \E t \in {<<>>, <<"A", " ", "b">>}, b \in {"", "text2"}, g \in Tags \cup {""} :
          PostUpdateCall(t, b, g)

SpecEmpty == InitSession /\ [][NextEmpty]_vars

\* A Post object and the posts table, with the object's publish.
NextPublish ==
    \/ NextEntity
    \/ PostPublishCall

SpecPublish == InitSession /\ [][NextPublish]_vars

\* Comma-separated tag lists as create_post stores them and as /posts/search
\* passes them: no empty tag, so no comma first, last or doubled.
TagLists ==
    {s \in TagStrings :
        /\ ~ \E x \in TagStrings : s = "," \o x \/ s = x \o ","
        /\ ~ \E x, y \in TagStrings : s = x \o ",," \o y}

\* The tag filter, on the post alice creates with a tag list.
NextTags ==
    \/ \E p \in Passwords : Login("c1", "alice", p)
    \/ \E g \in TagLists : CreatePost("c1", <<"H", "i", "!">>, "text1", g)
    \/ \E g \in TagLists \ {""}, f \in BOOLEAN : FilterPostsByTags(g, f)

SpecTags == InitSession /\ [][NextTags]_vars

\* The store after alice has requested a reset token at time 0, logged in on
\* c1 and created the post 'Hi!'; no request is in flight.
InitWrites ==
    /\ users = <<[SeedAdmin EXCEPT
                    !.reset_token = generate_password_reset_token("a@x", 0)],
                 SeedUser>>
    /\ lastPw = <<"p1", "p2">>
    /\ issuedAt = <<0, -1>>
    /\ session = [c \in Clients |->
                     IF c = "c1"
                     THEN [keys |-> {"user_id", "username", "is_admin"},
                           user_id |-> 1, username |-> "alice", is_admin |-> TRUE]
                     ELSE EmptySession]
    /\ authOf = [c \in Clients |->
                    IF c = "c1"
                    THEN [kind |-> "login", user_id |-> 1, username |-> "alice",
                          is_admin |-> TRUE]
                    ELSE NoAuth]
    /\ now = 0
    /\ resp = [op |-> "create_post", status |-> 201, error |-> "", effect |-> "none"]
    /\ consumed = {}
    /\ posts = <<[id |-> 1, title |-> <<"H", "i", "!">>, content |-> "text1",
                  author_id |-> 1, slug |-> generate_slug(<<"H", "i", "!">>),
                  tags |-> "a", published |-> FALSE,
                  created_at |-> 0, updated_at |-> 0]>>
    /\ comments = <<>>
    /\ reqs = [q \in Requests |-> IdleReq]
    /\ post = NoPost
    /\ conn = NoTxn
    /\ superseded = {}

\* The calls of update_post on alice's post, each field given or not.
UpdatePostCalls ==
    {[Call("update_post", "c1") EXCEPT !.id = 1, !.title = t, !.content = b, !.tags = g] :
        t \in {<<"A", " ", "b">>, NoneTitle}, b \in {"text2", None}, g \in {"b", None}}

\* One call of every handler that writes, and calls that are refused.
WriteCalls ==
    UpdatePostCalls
    \cup {[Call("update_post", c) EXCEPT !.id = 2, !.content = "text2"] : c \in Clients}
    \cup {[Call("register", "c2") EXCEPT !.username = u, !.email = "c@x",
                                         !.password = "p1", !.salt = "s1"] :
             u \in {"carol", "alice"}}
    \cup {[Call("create_post", "c1") EXCEPT !.title = <<"A", " ", "b">>,
                                            !.content = b, !.tags = "a"] :
             b \in {"text1", ""}}
    \cup {[Call("add_comment", "c1") EXCEPT !.id = id, !.content = b] :
             id \in PostIds, b \in Contents \cup {""}}
    \cup {[Call("reset_password", "c2") EXCEPT !.email = e] : e \in Emails \cup {"c@x"}}
    \cup {[Call("change_password", "c2") EXCEPT !.email = "a@x", !.token = t,
                                                !.password = "p2", !.salt = "s1"] :
             t \in {generate_password_reset_token(e, 0) : e \in Emails}}
    \cup {[Call("promote_user", c) EXCEPT !.id = id] : c \in Clients, id \in 1..3}

\* One request at a time: a write handler whose statements or whose commit
\* the backend may refuse.
NextTxn ==
    \/ \E call \in WriteCalls : WriteBegin("r1", call)
    \/ \E f \in BOOLEAN : WriteExecute("r1", f)
    \/ \E f \in BOOLEAN : WriteCommit("r1", f)

SpecTxn == InitWrites /\ [][NextTxn]_vars

\* Two requests in flight on the connection, each in update_post,
\* add_comment or promote_user.
ConnCalls ==
    {a \in UpdatePostCalls : a.tags = None}
    \cup {[Call("add_comment", "c1") EXCEPT !.id = 1, !.content = "text1"],
          [Call("promote_user", "c1") EXCEPT !.id = 2]}

NextConn ==
    \/ \E q \in Requests, call \in ConnCalls : WriteBegin(q, call)
    \/ \E q \in Requests, f \in BOOLEAN : WriteExecute(q, f)
    \/ \E q \in Requests, f \in BOOLEAN : WriteCommit(q, f)

SpecConn == InitWrites /\ [][NextConn]_vars

\* promote_user by alice in one request while a login of bob, or of alice,
\* runs in another.
NextPromote ==
    \/ \E id \in 1..3 : WriteBegin("r1", [Call("promote_user", "c1") EXCEPT !.id = id])
    \/ \E f \in BOOLEAN : WriteExecute("r1", f)
    \/ \E f \in BOOLEAN : WriteCommit("r1", f)
    \/ \E u \in Usernames, p \in Passwords : LoginSelect("r2", "c2", u, p)
    \/ LoginStore("r2")

SpecPromote == InitWrites /\ [][NextPromote]_vars

(***************************************************************************)
(* The claims.                                                             *)
(***************************************************************************)
SessionKeys == {"user_id", "username", "is_admin"}

\* C1: a reset token is accepted once. For every <<email, token>> that
\* change_password accepted since the email's last reset request, a further
\* change_password with the same email and token returns 401 "Invalid token"
\* and leaves the users table, password hashes included, as it is.
C1_TokenAcceptedOnce ==
    \A used \in consumed : \A p \in Passwords, s \in Salts :
        LET r == ChangePasswordResult(used[1], used[2], p, s) IN
        /\ r.status = 401
        /\ r.error = "Invalid token"
        /\ r.users = users

\* C1's case: a token was accepted and its second use has been refused.
C1_Witness ==
    /\ \E used \in consumed : used[3]
    /\ resp.op = "change_password"
    /\ resp.status = 401

\* C2: a reset token expires. For every user whose stored reset token was
\* issued more than TokenLifetime ago, change_password with that user's email
\* and that token returns 401 and leaves the users table as it is.
C2_ExpiredTokenRefused ==
    \A i \in 1..Len(users) : \A p \in Passwords, s \in Salts :
        (users[i].reset_token # NULL /\ now > issuedAt[i] + TokenLifetime) =>
            LET r == ChangePasswordResult(users[i].email, users[i].reset_token, p, s) IN
            /\ r.status = 401
            /\ r.users = users

\* C3: a session holds user_id, username or is_admin only if a login
\* succeeded on it since its last logout, and then it holds exactly what that
\* login stored.
C3_IdentityOnlyByLogin ==
    \A c \in Clients :
        session[c].keys # {} =>
            /\ authOf[c].kind = "login"
            /\ session[c].keys = SessionKeys
            /\ session[c].user_id = authOf[c].user_id
            /\ session[c].username = authOf[c].username
            /\ session[c].is_admin = authOf[c].is_admin

\* C4: update_post changes a post row only when the session's user_id is the
\* author_id of the post with that id; from any other authenticated session,
\* or for an id no post has, it returns 404 "Post not found or unauthorized"
\* and leaves every post row as it is.
C4_UpdateOnlyByOwner ==
    \A c \in Clients, id \in PostIds, t \in Titles \cup {NoneTitle},
       b \in Contents \cup {None}, g \in Tags \cup {None} :
        LET r == UpdatePostResult(c, id, t, b, g)
            authenticated == "user_id" \in session[c].keys
            owned == /\ authenticated
                     /\ \E i \in 1..Len(posts) :
                           /\ posts[i].id = id
                           /\ posts[i].author_id = session[c].user_id
        IN /\ r.posts # posts => owned
           /\ (authenticated /\ ~owned) =>
                 /\ r.status = 404
                 /\ r.error = "Post not found or unauthorized"
                 /\ r.posts = posts

\* C4's case: update_post was refused for a session that is not the author
\* of the stored post.
C4_Witness ==
    /\ resp.op = "update_post"
    /\ resp.status = 404
    /\ Len(posts) > 0
    /\ "user_id" \in session["c1"].keys
    /\ posts[1].author_id # session["c1"].user_id

\* C5: register with a username or an email that a user row already has
\* returns 400 "User already exists" and creates no row.
C5_DuplicateRegisterRefused ==
    \A u \in Usernames, e \in Emails, p \in Passwords, s \in Salts :
        (\E i \in 1..Len(users) : users[i].username = u \/ users[i].email = e) =>
            LET r == RegisterResult(u, e, p, s) IN
            /\ r.status = 400
            /\ r.error = "User already exists"
            /\ r.users = users

\* C5's case: a register was refused as a duplicate, with two rows stored.
C5_Witness ==
    /\ resp.op = "register"
    /\ resp.error = "User already exists"
    /\ Len(users) = 2

\* C6: no two user rows share a username and no two share an email, also
\* when register requests interleave between their SELECT and their INSERT.
C6_UniqueUsers ==
    \A i, j \in 1..Len(users) :
        i # j => /\ users[i].username # users[j].username
                 /\ users[i].email # users[j].email

\* C6's case: two requests passed the existence check for the same name, one
\* inserted its row and the other's INSERT was refused.
C6_Witness ==
    /\ resp.op = "register"
    /\ resp.status = 500
    /\ Len(users) > 0

\* C7: for every user row, login with the password last set for it (by
\* register or by an accepted change_password) returns 200 and puts that user
\* into the session; login with any other password returns 401 "Invalid
\* credentials" and leaves the session as it is.
C7_LoginIffLastPassword ==
    \A c \in Clients, i \in 1..Len(users), q \in Passwords :
        LET r == LoginResult(c, users[i].username, q) IN
        IF q = lastPw[i]
        THEN /\ r.status = 200
             /\ SessionKeys \subseteq r.session.keys
             /\ r.session.user_id = users[i].id
             /\ r.session.username = users[i].username
        ELSE /\ r.status = 401
             /\ r.error = "Invalid credentials"
             /\ r.session = session[c]

\* C7's case: after an accepted change_password a login has been refused.
C7_Witness ==
    /\ consumed # {}
    /\ \E i \in 1..Len(users) : users[i].password_hash.salt = "s2"
    /\ resp.op = "login"
    /\ resp.status = 401

\* C8: while the session a login created is live, its is_admin is the value
\* that login read from the user's row.
C8_AdminFlagAsReadAtLogin ==
    \A c \in Clients :
        authOf[c].kind = "login" =>
            /\ "is_admin" \in session[c].keys
            /\ session[c].is_admin = authOf[c].is_admin

\* C9: after logout, and until a login succeeds, the session holds nothing
\* and every protected route answers 401.
C9_LoggedOutUntilLogin ==
    \A c \in Clients :
        authOf[c].kind = "logout" =>
            /\ session[c] = EmptySession
            /\ \A t \in Titles, b \in Contents, g \in Tags :
                  /\ CreatePostResult(c, t, b, g).status = 401
                  /\ \A id \in PostIds : UpdatePostResult(c, id, t, b, g).status = 401
            /\ \A id \in PostIds, b \in Contents : AddCommentResult(c, id, b).status = 401
            /\ \A op \in AdminOps : AdminOpResult(c, op).status = 401
            /\ \A id \in 1..Len(users) : PromoteUserResult(c, id).status = 401

\* C10: every admin route answers 401 to a session without user_id and 403
\* to a session with user_id whose is_admin is false, and does nothing:
\* no effect, and promote_user leaves every row's is_admin as it is.
\* export_users answers 403 to every session that is not an admin session.
C10_AdminRoutesRefuse ==
    \A c \in Clients :
        LET anonymous == "user_id" \notin session[c].keys
            expected == IF anonymous THEN 401 ELSE 403
        IN (anonymous \/ ~session[c].is_admin) =>
              /\ \A op \in AdminOps :
                    /\ AdminOpResult(c, op).status = expected
                    /\ AdminOpResult(c, op).effect = "none"
              /\ \A id \in 1..(Len(users) + 1) :
                    /\ PromoteUserResult(c, id).status = expected
                    /\ PromoteUserResult(c, id).users = users
              /\ ExportUsersResult(c).status = 403
              /\ ExportUsersResult(c).effect = "none"

\* C10's case: promote_user has been refused with 403 for a logged-in user
\* who is no admin, and bob's row is still no admin.
C10_Witness ==
    /\ resp.op = "promote_user"
    /\ resp.status = 403
    /\ \E c \in Clients : "user_id" \in session[c].keys /\ ~session[c].is_admin
    /\ ~users[2].is_admin

\* The characters the prose of the slug derivation keeps.
AlnumChars == {"a", "b", "h", "i", "w", "A", "B", "H", "W", "1", "2"}
WordChars == AlnumChars \cup {"_"}
RunChars == {" ", "\t", "-"}

\* The reference result: the title lower-cased, the characters outside kept
\* and RunChars removed, and one hyphen written where a run of RunChars starts.
SlugReference(title, kept) ==
    LET low == [i \in 1..Len(title) |-> Lower(title[i])]
        k == SelectSeq(low, LAMBDA ch : ch \in kept \/ ch \in RunChars)
        starts == SelectSeq([i \in 1..Len(k) |-> i],
                            LAMBDA i : k[i] \notin RunChars \/ i = 1 \/ k[i - 1] \notin RunChars)
    IN [j \in 1..Len(starts) |-> IF k[starts[j]] \in RunChars THEN "-" ELSE k[starts[j]]]

\* C15: the slug derivation is idempotent: the slug of a Post's slug is that
\* slug, and a Post built from a slug as its title has that slug.
C15_SlugIdempotent ==
    post # NoPost =>
        /\ generate_slug(post.slug) = post.slug
        /\ resp.op = "Post(slug)" => post.slug = post.title

\* C15's case: a Post whose title the derivation changed, with a slug left.
C15_Witness ==
    /\ post # NoPost
    /\ resp.op = "Post"
    /\ "!" \in {post.title[i] : i \in 1..Len(post.title)}
    /\ post.slug # post.title
    /\ post.slug # <<>>

\* C16 as stated: the slug is the title lower-cased, without the characters
\* that are no alphanumeric, whitespace or hyphen, runs collapsed; it holds
\* lower-case alphanumerics and hyphens only, no two hyphens adjacent.
C16_SlugIsAlnumReference ==
    post # NoPost =>
        /\ post.slug = SlugReference(post.title, AlnumChars)
        /\ \A i \in 1..Len(post.slug) :
              post.slug[i] \in {Lower(ch) : ch \in AlnumChars} \cup {"-"}

\* C16 amended: the characters kept are the word characters, the underscore
\* included; the slug holds lower-case alphanumerics, underscores and
\* hyphens only, no two hyphens adjacent.
C16_SlugIsWordReference ==
    post # NoPost =>
        /\ post.slug = SlugReference(post.title, WordChars)
        /\ \A i \in 1..Len(post.slug) :
              post.slug[i] \in {Lower(ch) : ch \in WordChars} \cup {"-"}
        /\ \A i \in 1..(Len(post.slug) - 1) :
              ~(post.slug[i] = "-" /\ post.slug[i + 1] = "-")

\* C16's case: a title with a run of whitespace and hyphens and with an
\* underscore, which the slug keeps.
C16_Witness ==
    /\ post # NoPost
    /\ post.title = <<"_", " ", "-">>
    /\ post.slug = <<"_", "-">>

\* C12: an update leaves every field it was not given as it is. update_post
\* on the stored row and Post.update on the object keep title and slug when
\* no title is supplied, content when no content is supplied, tags when no
\* tags are supplied, and always keep author and published flag; with only
\* content supplied nothing but the content changes.
C12_OmittedFieldsKept ==
    \A t \in Titles \cup {NoneTitle}, b \in Contents \cup {None}, g \in Tags \cup {None} :
        /\ \A c \in Clients, id \in PostIds :
              LET r == UpdatePostResult(c, id, t, b, g) IN
              /\ Len(r.posts) = Len(posts)
              /\ \A i \in 1..Len(posts) :
                    LET old == posts[i]
                        new == r.posts[i] IN
                    /\ t = NoneTitle => new.title = old.title /\ new.slug = old.slug
                    /\ b = None => new.content = old.content
                    /\ g = None => new.tags = old.tags
                    /\ new.id = old.id
                    /\ new.author_id = old.author_id
                    /\ new.published = old.published
                    /\ (t = NoneTitle /\ g = None) =>
                          new = [old EXCEPT !.content = new.content]
        /\ post # NoPost =>
              LET new == PostUpdate(post, t, b, g, now) IN
              /\ t = NoneTitle => new.title = post.title /\ new.slug = post.slug
              /\ b = None => new.content = post.content
              /\ g = None => new.tags = post.tags
              /\ new.author_id = post.author_id
              /\ new.published = post.published
              /\ new.created_at = post.created_at

\* C12's case: update_post has stored a new content on a row created with
\* another one, and the Post in memory has been updated with a content only.
C12_Witness ==
    /\ resp.op = "update_post"
    /\ resp.status = 200
    /\ posts # <<>>
    /\ posts[1].content = "text2"
    /\ posts[1].tags = "a"
    /\ posts[1].slug = generate_slug(posts[1].title)
    /\ post # NoPost
    /\ post.content = "text2"
    /\ post.tags = ""
    /\ post.slug = generate_slug(post.title)

\* C13: the slug of every stored post is the slug derivation of its current
\* title, after create_post and after every update_post.
C13_SlugFollowsTitle ==
    \A i \in 1..Len(posts) : posts[i].slug = generate_slug(posts[i].title)

\* C14: every successful update refreshes the updated timestamp: after
\* update_post answers 200 the row's updated_at is the time of the call, and
\* so is the object's after Post.update, whatever fields are supplied.
C14_UpdateRefreshesTimestamp ==
    \A t \in Titles \cup {NoneTitle}, b \in Contents \cup {None}, g \in Tags \cup {None} :
        /\ \A c \in Clients, id \in PostIds :
              LET r == UpdatePostResult(c, id, t, b, g) IN
              r.status = 200 =>
                  \A i \in 1..Len(r.posts) :
                      r.posts[i].id = id => r.posts[i].updated_at = now
        /\ post # NoPost => PostUpdate(post, t, b, g, now).updated_at = now

\* C11: create_post, add_comment and update_post answer 401 "Authentication
\* required" to a session without user_id and leave the posts and comments
\* tables as they are; when create_post or add_comment succeeds, the one row
\* it adds carries the session's user_id as author_id / user_id.
C11_PostRoutesNeedLogin ==
    \A c \in Clients, id \in PostIds, t \in Titles, b \in Contents, g \in Tags :
        LET cp == CreatePostResult(c, t, b, g)
            ac == AddCommentResult(c, id, b)
            up == UpdatePostResult(c, id, t, b, g)
        IN IF "user_id" \notin session[c].keys
           THEN /\ cp.status = 401 /\ cp.error = "Authentication required"
                /\ ac.status = 401 /\ ac.error = "Authentication required"
                /\ up.status = 401 /\ up.error = "Authentication required"
                /\ cp.posts = posts
                /\ up.posts = posts
                /\ ac.comments = comments
           ELSE /\ cp.status = 201 =>
                     /\ Len(cp.posts) = Len(posts) + 1
                     /\ SubSeq(cp.posts, 1, Len(posts)) = posts
                     /\ cp.posts[Len(cp.posts)].author_id = session[c].user_id
                /\ ac.status = 201 =>
                     /\ Len(ac.comments) = Len(comments) + 1
                     /\ SubSeq(ac.comments, 1, Len(comments)) = comments
                     /\ ac.comments[Len(ac.comments)].user_id = session[c].user_id

\* C11's case: add_comment has stored bob's comment under alice's post,
\* each row with the user_id of the session that sent it.
C11_Witness ==
    /\ resp.op = "add_comment"
    /\ resp.status = 201
    /\ authOf["c1"].username = "bob"
    /\ posts # <<>>
    /\ posts[1].author_id = 1
    /\ comments # <<>>
    /\ comments[1].user_id = 2

\* C17: reset_password answers an email that belongs to a user and one that
\* belongs to none with the same status and the same body.
C17_ResetPasswordOpaque ==
    \A e1, e2 \in Emails :
        (UsersByEmail(e1) # <<>> /\ UsersByEmail(e2) = <<>>) =>
            /\ ResetPasswordResult(e1).status = ResetPasswordResult(e2).status
            /\ ResetPasswordBody(e1) = ResetPasswordBody(e2)

\* C18: of two change_password requests that carry the same email and the
\* same issued token, at most one answers 200.
C18_TokenConsumedAtomically ==
    \A q1, q2 \in Requests :
        (/\ q1 # q2
         /\ reqs[q1].pc = "done" /\ reqs[q1].status = 200
         /\ reqs[q2].pc = "done" /\ reqs[q2].status = 200
         /\ reqs[q1].token \in IssuedTokens)
        => ~(reqs[q1].email = reqs[q2].email /\ reqs[q1].token = reqs[q2].token)

\* C19: no caller value reaches the statement text. Two calls that differ
\* in caller values run the same text; filter_posts_by_tags returns the
\* posts whose tags contain the value, and change_password accepts only
\* when a row has that email and that reset token.
C19_NoInterpolatedSql ==
    /\ \A v1, v2 \in CallerStrings :
          /\ FilterPostsByTagsQuery(v1) = FilterPostsByTagsQuery(v2)
          /\ GetUserPostsQuery(1, v1) = GetUserPostsQuery(1, v2)
          /\ SearchUsersByRoleQuery(v1) = SearchUsersByRoleQuery(v2)
          /\ GetPostAnalyticsQuery(v1) = GetPostAnalyticsQuery(v2)
          /\ UpdateUserProfileQuery(v1) = UpdateUserProfileQuery(v2)
          /\ ChangePasswordQuery("a@x", v1) = ChangePasswordQuery("a@x", v2)
          /\ ExportUsersQuery(v1, "") = ExportUsersQuery(v2, "")
    /\ \A v \in CallerStrings :
          FilterPostsByTagsResult(v, FALSE).rows = SelectSeq(posts, LAMBDA r : Like(r.tags, v))
    /\ \A e \in Emails, t \in CallerStrings, p \in Passwords, s \in Salts :
          ChangePasswordResult(e, t, p, s).status = 200 =>
              \E i \in 1..Len(users) : users[i].email = e /\ users[i].reset_token = t

\* C20: a data-access call that failed never returns the empty list a
\* query without rows returns: when execute_query (register's existence
\* check), filter_posts_by_tags or search_users_by_role has logged an error,
\* what it returned is not [].
C20_FailureIsNotNoRows ==
    (resp.op \in {"execute_query", "filter_posts_by_tags", "search_users_by_role"}
     /\ resp.error # "") => resp.effect # "[]"

\* C24: a comment always references an existing post and an existing user:
\* every stored comment's post_id is the id of a stored post and its user_id
\* the id of a stored user, and add_comment for a post_id no post has answers
\* 404 and stores no comment.
C24_CommentsReferenceRows ==
    /\ \A i \in 1..Len(comments) :
          /\ \E p \in 1..Len(posts) : posts[p].id = comments[i].post_id
          /\ \E u \in 1..Len(users) : users[u].id = comments[i].user_id
    /\ \A c \in Clients, id \in PostIds, b \in Contents :
          (/\ "user_id" \in session[c].keys
           /\ ~ \E p \in 1..Len(posts) : posts[p].id = id) =>
              /\ AddCommentResult(c, id, b).status = 404
              /\ AddCommentResult(c, id, b).comments = comments

\* C27: a login that fails leaves the session as it is. login for an unknown
\* username, with a wrong password or without credentials answers 400 or 401
\* and returns the session unchanged, so a session a login created holds that
\* login's user_id, username and is_admin through every failed attempt, until
\* the next successful login or logout.
C27_FailedLoginKeepsSession ==
    /\ \A c \in Clients, u \in Usernames \cup {"carol", ""}, p \in Passwords \cup {""} :
          LET r == LoginResult(c, u, p) IN
          r.status # 200 =>
              /\ r.status \in {400, 401}
              /\ r.session = session[c]
    /\ \A c \in Clients :
          authOf[c].kind = "login" =>
              /\ session[c].keys = SessionKeys
              /\ session[c].user_id = authOf[c].user_id
              /\ session[c].username = authOf[c].username
              /\ session[c].is_admin = authOf[c].is_admin

\* C27's case: on the session alice logged in on, a login has been refused
\* while a second user exists, and the session is still alice's.
C27_Witness ==
    /\ resp.op = "login"
    /\ resp.status = 401
    /\ authOf["c1"].kind = "login"
    /\ authOf["c1"].username = "alice"
    /\ session["c1"].username = "alice"
    /\ session["c1"].keys = SessionKeys
    /\ Len(users) = 2

\* C28: at most one reset token of a user is valid at a time. A token that a
\* later reset request replaced by a different one is refused by
\* change_password with 401 "Invalid token" and changes nothing; the token
\* stored last is accepted; for no email are two issued tokens accepted.
C28_OneValidToken ==
    /\ \A old \in superseded : \A p \in Passwords, s \in Salts :
          LET r == ChangePasswordResult(old[1], old[2], p, s) IN
          /\ r.status = 401
          /\ r.error = "Invalid token"
          /\ r.users = users
    /\ \A i \in 1..Len(users) : \A p \in Passwords, s \in Salts :
          users[i].reset_token # NULL =>
              ChangePasswordResult(users[i].email, users[i].reset_token, p, s).status = 200
    /\ \A e \in Emails :
          Cardinality({t \in IssuedTokens :
                          ChangePasswordResult(e, t, "p1", "s1").status = 200}) <= 1

\* C28's case: reset_password has replaced the token alice got at time 0 by
\* the one of time 1.
C28_Witness ==
    /\ resp.op = "reset_password"
    /\ <<"a@x", generate_password_reset_token("a@x", 0)>> \in superseded
    /\ users[1].reset_token = generate_password_reset_token("a@x", 1)

\* C29: a user becomes admin only through promote_user called on a session
\* that a login as an admin user created: on every other session promote_user
\* leaves every row's is_admin as it is.
C29_AdminOnlyByAdminLogin ==
    \A c \in Clients, id \in 1..Len(users) :
        PromoteUserResult(c, id).users # users =>
            /\ authOf[c].kind = "login"
            /\ authOf[c].is_admin

\* C30: an update treats a field given as the empty string like a field that
\* was not given. update_post and Post.update with empty values in place of
\* absent ones give the same result, slug included, and neither makes a
\* title, a content or a tag list empty that was not.
C30_EmptyIsOmitted ==
    \A t \in Titles \cup {NoneTitle}, b \in Contents \cup {None}, g \in Tags \cup {None} :
        LET te == IF t = NoneTitle THEN <<>> ELSE t
            be == IF b = None THEN "" ELSE b
            ge == IF g = None THEN "" ELSE g
        IN /\ \A c \in Clients, id \in PostIds :
                 LET r == UpdatePostResult(c, id, te, be, ge) IN
                 /\ r = UpdatePostResult(c, id, t, b, g)
                 /\ \A i \in 1..Len(posts) :
                       /\ r.posts[i].title = <<>> => posts[i].title = <<>>
                       /\ r.posts[i].content = "" => posts[i].content = ""
                       /\ r.posts[i].tags = "" => posts[i].tags = ""
           /\ post # NoPost =>
                 LET new == PostUpdate(post, te, be, ge, now) IN
                 /\ new = PostUpdate(post, t, b, g, now)
                 /\ new.title = <<>> => post.title = <<>>
                 /\ new.content = "" => post.content = ""
                 /\ new.tags = "" => post.tags = ""

\* C30's case: update_post and Post.update were given a new content with an
\* empty title, and the object empty tags in every update: title, slug and
\* the object's tags are as created.
C30_Witness ==
    /\ resp.op = "update_post"
    /\ resp.status = 200
    /\ posts # <<>>
    /\ posts[1].title = <<"H", "i", "!">>
    /\ posts[1].slug = <<"h", "i">>
    /\ posts[1].content = "text2"
    /\ posts[1].tags = "a"
    /\ post # NoPost
    /\ post.title = <<"H", "i", "!">>
    /\ post.slug = <<"h", "i">>
    /\ post.content = "text2"
    /\ post.tags = ""

\* C25: a post is unpublished when created, becomes published only through
\* publish and stays published. Every step leaves a published object
\* published, makes an object published only when the step is Post.publish,
\* constructs objects unpublished, stores new rows unpublished and leaves the
\* published flag of every stored row as it is.
C25_PublishedOnlyByPublish ==
    [][/\ (post = NoPost /\ post' # NoPost) => ~post'.published
       /\ post.published => post'.published
       /\ (~post.published /\ post'.published) => resp'.op = "Post.publish"
       /\ Len(posts') >= Len(posts)
       /\ \A i \in 1..Len(posts') :
             IF i <= Len(posts)
             THEN posts'[i].published = posts[i].published
             ELSE ~posts'[i].published]_vars

\* C25's case: a published object has been updated with a new content and
\* is still published, beside a stored row that is unpublished.
C25_Witness ==
    /\ resp.op = "Post.update"
    /\ post.published
    /\ post.content = "text2"
    /\ posts # <<>>
    /\ ~posts[1].published

\* The tags of a comma-separated list: the labels between its commas.
TagLabels == {s \in TagStrings : s # "" /\ ~ \E x, y \in TagStrings : s = x \o "," \o y}

HasTag(list, t) ==
    \/ list = t
    \/ \E x \in TagStrings : list = t \o "," \o x \/ list = x \o "," \o t
    \/ \E x, y \in TagStrings : list = x \o "," \o t \o "," \o y

\* C26: filter_posts_by_tags returns exactly the posts that carry at least
\* one of the listed tags: for every comma-separated list, the rows whose
\* stored tag list has a tag that the given list has.
C26_FilterMatchesAnyTag ==
    \A tags \in TagLists \ {""} :
        FilterPostsByTagsResult(tags, FALSE).rows =
            SelectSeq(posts, LAMBDA r : \E t \in TagLabels : HasTag(tags, t) /\ HasTag(r.tags, t))

\* C21: every write operation is all-or-nothing. When register, create_post,
\* add_comment, update_post, reset_password, change_password or promote_user
\* has answered 500 because a statement or the commit failed, the tables are
\* as the call found them and the connection holds nothing uncommitted.
C21_FailedWriteLeavesNothing ==
    \A q \in Requests :
        (reqs[q].op \in WriteOps /\ reqs[q].pc = "done" /\ reqs[q].status = 500) =>
            /\ users = reqs[q].before.users
            /\ posts = reqs[q].before.posts
            /\ comments = reqs[q].before.comments
            /\ ~conn.open

\* The tables as of the last commit.
Committed ==
    IF conn.open
    THEN [users |-> conn.users, posts |-> conn.posts, comments |-> conn.comments]
    ELSE [users |-> users, posts |-> posts, comments |-> comments]

\* C22: promote_user(u) concurrent with a login leaves u's stored admin flag
\* as the last committed write made it. A user is admin as of the last commit
\* exactly when it was admin before or a promote_user of it has answered 200;
\* once promote_user has answered 200 nothing of it is uncommitted; the login
\* changes no row.
C22_PromotionNotLost ==
    /\ \A i \in 1..Len(Committed.users) :
          Committed.users[i].is_admin <=>
              \/ Committed.users[i].id = SeedAdmin.id
              \/ \E q \in Requests :
                    /\ reqs[q].op = "promote_user"
                    /\ reqs[q].pc = "done"
                    /\ reqs[q].status = 200
                    /\ reqs[q].id = Committed.users[i].id
    /\ \A q \in Requests :
          (reqs[q].op = "promote_user" /\ reqs[q].pc = "done") => ~conn.open
    /\ \A i \in 1..Len(users) :
          /\ users[i].id = i
          /\ users[i].username = (IF i = 1 THEN SeedAdmin ELSE SeedUser).username
          /\ users[i].password_hash = (IF i = 1 THEN SeedAdmin ELSE SeedUser).password_hash

\* C22's case: bob's login read his row before the promotion's UPDATE and
\* stored its session after the promotion was committed: the session says
\* no admin, the row says admin.
C22_Witness ==
    /\ reqs["r1"].op = "promote_user"
    /\ reqs["r1"].pc = "done"
    /\ reqs["r1"].status = 200
    /\ reqs["r1"].id = 2
    /\ reqs["r2"].pc = "done"
    /\ reqs["r2"].status = 200
    /\ resp.op = "login"
    /\ session["c2"].username = "bob"
    /\ ~session["c2"].is_admin
    /\ users[2].is_admin

\* C23: the connection is safe for concurrent use: a commit or rollback of
\* one request neither commits nor discards what another request has
\* executed and not yet committed. Every request that has executed a write
\* statement and has not reached its own commit or rollback still has its
\* transaction open on the connection.
C23_OwnCommitOnly ==
    \A q \in Requests :
        (reqs[q].pc = "exec" /\ reqs[q].step > 0) =>
            /\ conn.open
            /\ q \in conn.pending
====
